---- MODULE Spec2Model ----
(***************************************************************************)
(* Prompt threat detection (backend/detector.py, backend/ml_model.py):     *)
(* keyword proximity scoring fused with a classifier result into a report. *)
(* A string is a sequence of one-character strings.  Scores and            *)
(* probabilities are fixed-point numbers, Unit to 1.0.                     *)
(***************************************************************************)
EXTENDS Integers, Sequences, FiniteSets, TLC

VARIABLES
  model,      \* ml_model.model / ml_model.vectorizer: "loaded", or "None" when an artifact is missing
  pc,         \* position of the call of analyze_prompt: "idle", "scored", "predicted", "done"
  prompt,     \* the argument of analyze_prompt
  kw,         \* the locals of _keyword_score(prompt) at its return
  ml_result,  \* what the call predict_prompt(prompt) produced
  report      \* the dict analyze_prompt returns

vars == <<model, pc, prompt, kw, ml_result, report>>

(* ------------------------- keyword detection config -------------------- *)

RISKY_ACTIONS ==
  << <<"k", "i", "l", "l">>,
     <<"h", "a", "c", "k">>,
     <<"b", "y", "p", "a", "s", "s">>,
     <<"o", "v", "e", "r", "r", "i", "d", "e">>,
     <<"r", "e", "v", "e", "a", "l">>,
     <<"d", "i", "s", "a", "b", "l", "e">>,
     <<"s", "t", "e", "a", "l">>,
     <<"a", "c", "c", "e", "s", "s">>,
     <<"m", "a", "k", "e">>,
     <<"c", "r", "e", "a", "t", "e">>,
     <<"b", "u", "i", "l", "d">>,
     <<"p", "r", "o", "d", "u", "c", "e">>,
     <<"m", "a", "n", "u", "f", "a", "c", "t", "u", "r", "e">> >>

SENSITIVE_TARGETS ==
  << <<"h", "u", "m", "a", "n">>,
     <<"p", "e", "r", "s", "o", "n">>,
     <<"p", "e", "o", "p", "l", "e">>,
     <<"u", "s", "e", "r">>,
     <<"s", "y", "s", "t", "e", "m">>,
     <<"d", "a", "t", "a", "b", "a", "s", "e">>,
     <<"p", "a", "s", "s", "w", "o", "r", "d">>,
     <<"a", "c", "c", "o", "u", "n", "t">>,
     <<"s", "e", "r", "v", "e", "r">>,
     <<"b", "a", "c", "k", "e", "n", "d">>,
     <<"d", "r", "u", "g">>,
     <<"c", "o", "c", "a", "i", "n", "e">>,
     <<"b", "o", "m", "b">>,
     <<"w", "e", "a", "p", "o", "n">>,
     <<"e", "x", "p", "l", "o", "s", "i", "v", "e">> >>

SAFE_TARGETS ==
  << <<"v", "i", "r", "u", "s">>,
     <<"b", "u", "g">>,
     <<"m", "a", "l", "w", "a", "r", "e">>,
     <<"e", "r", "r", "o", "r">>,
     <<"i", "s", "s", "u", "e">>,
     <<"f", "i", "l", "e">> >>

\* a window one token wider
MaxDistanceWide == 3 + 1

MAX_DISTANCE == 3

(* ------------------------------ characters ----------------------------- *)

UpperLetters ==
  <<"A","B","C","D","E","F","G","H","I","J","K","L","M",
    "N","O","P","Q","R","S","T","U","V","W","X","Y","Z">>

LowerLetters ==
  <<"a","b","c","d","e","f","g","h","i","j","k","l","m",
    "n","o","p","q","r","s","t","u","v","w","x","y","z">>

Digits == {"0","1","2","3","4","5","6","7","8","9"}

Range(s) == {s[i] : i \in DOMAIN s}

\* the class \s of the regular expressions, and of str.strip and str.split
IsSpace(c) == c \in {" ", "\t", "\n", "\r", "\f"}

\* the class \w of the regular expressions: letters, digits and the underscore
IsWordChar(c) == c \in Range(LowerLetters) \cup Range(UpperLetters) \cup Digits \cup {"_"}

LowerChar(c) ==
  IF \E i \in DOMAIN UpperLetters : UpperLetters[i] = c
  THEN LowerLetters[CHOOSE i \in DOMAIN UpperLetters : UpperLetters[i] = c]
  ELSE c

\* str.lower
Lower(s) == [i \in DOMAIN s |-> LowerChar(s[i])]

\* re.sub(r"[^\w\s]", " ", s)
SubNonWord(s) == [i \in DOMAIN s |-> IF IsWordChar(s[i]) \/ IsSpace(s[i]) THEN s[i] ELSE " "]

RECURSIVE SubSpaceRuns(_)
\* re.sub(r"\s+", " ", s): every maximal run of whitespace becomes one space
SubSpaceRuns(s) ==
  IF s = <<>> THEN <<>>
  ELSE IF IsSpace(Head(s))
       THEN IF Len(s) > 1 /\ IsSpace(s[2])
            THEN SubSpaceRuns(Tail(s))
            ELSE <<" ">> \o SubSpaceRuns(Tail(s))
       ELSE <<Head(s)>> \o SubSpaceRuns(Tail(s))

RECURSIVE LStrip(_)
LStrip(s) == IF s # <<>> /\ IsSpace(Head(s)) THEN LStrip(Tail(s)) ELSE s

RECURSIVE RStrip(_)
RStrip(s) == IF s # <<>> /\ IsSpace(s[Len(s)]) THEN RStrip(SubSeq(s, 1, Len(s) - 1)) ELSE s

\* str.strip
Strip(s) == RStrip(LStrip(s))

RECURSIVE SplitLoop(_, _, _)
SplitLoop(s, cur, acc) ==
  IF s = <<>> THEN (IF cur = <<>> THEN acc ELSE Append(acc, cur))
  ELSE IF IsSpace(Head(s))
       THEN SplitLoop(Tail(s), <<>>, IF cur = <<>> THEN acc ELSE Append(acc, cur))
       ELSE SplitLoop(Tail(s), Append(cur, Head(s)), acc)

\* str.split(): the maximal runs of non-whitespace, in order
Split(s) == SplitLoop(s, <<>>, <<>>)

\* sub in s
Contains(s, sub) ==
  \E i \in 1..(Len(s) - Len(sub) + 1) : SubSeq(s, i, i + Len(sub) - 1) = sub

(* --------------------------- utility functions ------------------------- *)

Min3(x, y, z) == IF x <= y /\ x <= z THEN x ELSE IF y <= z THEN y ELSE z

RECURSIVE LevRow(_, _, _, _, _)
\* row i of the table dp, built left to right from row i - 1 (prev); a row is
\* the sequence dp[i][0..n] held at positions 1..n+1
LevRow(prev, ai, b, j, cur) ==
  IF Len(cur) > Len(b) THEN cur
  ELSE LET cost == IF ai = b[j] THEN 0 ELSE 1
       IN  LevRow(prev, ai, b, j + 1,
                  Append(cur, Min3(prev[j + 1] + 1, cur[j] + 1, prev[j] + cost)))

RECURSIVE LevRows(_, _, _, _)
LevRows(a, b, i, prev) ==
  IF i > Len(a) THEN prev
  ELSE LevRows(a, b, i + 1, LevRow(prev, a[i], b, 1, <<i>>))

_levenshtein(a, b) == LevRows(a, b, 1, [j \in 1..(Len(b) + 1) |-> j - 1])[Len(b) + 1]

\* the value None, falsy exactly like the empty string
None == <<>>

RECURSIVE ClosestLoop(_, _, _, _, _, _)
ClosestLoop(token, candidates, max_dist, k, best, best_dist) ==
  IF k > Len(candidates) THEN best
  ELSE LET c == candidates[k]
           d == _levenshtein(token, c)
       IN  IF d <= max_dist /\ (best = None \/ d < best_dist)
           THEN ClosestLoop(token, candidates, max_dist, k + 1, c, d)
           ELSE ClosestLoop(token, candidates, max_dist, k + 1, best, best_dist)

\* a budget one edit larger
ClosestMatchWide(token, candidates, max_dist) ==
  ClosestLoop(token, candidates, max_dist + 1, 1, None, 0)

_closest_match(token, candidates, max_dist) ==
  ClosestLoop(token, candidates, max_dist, 1, None, 0)

(* --------------------------- keyword scoring --------------------------- *)

\* token if token in lexicon else _closest_match(token, lexicon, 1)
MatchWord(token, lexicon) ==
  IF token \in Range(lexicon) THEN token ELSE _closest_match(token, lexicon, 1)

RECURSIVE HitLoop(_, _, _, _)
\* the list of {"word", "idx"} entries one lexicon collects over the tokens;
\* idx counts from 0
HitLoop(tokens, lexicon, k, acc) ==
  IF k > Len(tokens) THEN acc
  ELSE LET m == MatchWord(tokens[k], lexicon)
       IN  IF m # None
           THEN HitLoop(tokens, lexicon, k + 1, Append(acc, [word |-> m, idx |-> k - 1]))
           ELSE HitLoop(tokens, lexicon, k + 1, acc)

Hits(tokens, lexicon) == HitLoop(tokens, lexicon, 1, <<>>)

Abs(x) == IF x < 0 THEN -x ELSE x

RECURSIVE PairLoop(_, _, _, _, _)
\* for a in as: for t in ts: if abs(a.idx - t.idx) <= MAX_DISTANCE: score += w
PairLoop(as, ts, w, n, score) ==
  IF n > Len(as) * Len(ts) THEN score
  ELSE LET a == as[((n - 1) \div Len(ts)) + 1]
           t == ts[((n - 1) % Len(ts)) + 1]
       IN  IF Abs(a.idx - t.idx) <= MAX_DISTANCE
           THEN PairLoop(as, ts, w, n + 1, score + w)
           ELSE PairLoop(as, ts, w, n + 1, score)

IntentHowTo == <<"h", "o", "w", " ", "t", "o">>
IntentWaysTo == <<"w", "a", "y", "s", " ", "t", "o">>
IntentMethodTo == <<"m", "e", "t", "h", "o", "d", " ", "t", "o">>

HasIntentPhrase(normalized) ==
  \/ Contains(normalized, IntentHowTo)
  \/ Contains(normalized, IntentWaysTo)
  \/ Contains(normalized, IntentMethodTo)

Min(x, y) == IF x <= y THEN x ELSE y
Max(x, y) == IF x >= y THEN x ELSE y

\* the accumulator returned without the clamp
ClampScoreOff(total) == total

\* score = min(score, 5)
ClampScore(total) == Min(total, 5)

Normalize(p) == Strip(SubSpaceRuns(SubNonWord(Lower(p))))

\* the locals of _keyword_score at its return; lookups counts the lexicon
\* lookups the token loop has made
_keyword_score(p) ==
  LET normalized == Normalize(p)
  IN  IF normalized = <<>>
      THEN [score |-> 0, detected_actions |-> {}, detected_targets |-> {},
            normalized |-> normalized, tokens |-> <<>>,
            action_indices |-> <<>>, sensitive_indices |-> <<>>,
            safe_indices |-> <<>>, lookups |-> 0]
      ELSE LET tokens == Split(normalized)
               action_indices == Hits(tokens, RISKY_ACTIONS)
               sensitive_indices == Hits(tokens, SENSITIVE_TARGETS)
               safe_indices == Hits(tokens, SAFE_TARGETS)
               strong == PairLoop(action_indices, sensitive_indices, 3, 1, 0)
               weak == PairLoop(action_indices, safe_indices, 1, 1, strong)
               total == IF HasIntentPhrase(normalized) THEN weak + 1 ELSE weak
           IN  [score |-> ClampScore(total),
                detected_actions |-> {action_indices[i].word : i \in DOMAIN action_indices},
                detected_targets |-> {sensitive_indices[i].word : i \in DOMAIN sensitive_indices},
                normalized |-> normalized, tokens |-> tokens,
                action_indices |-> action_indices,
                sensitive_indices |-> sensitive_indices,
                safe_indices |-> safe_indices, lookups |-> 3 * Len(tokens)]

(* -------------------------- fixed-point numbers ------------------------ *)

\* round(confidence, 4) in predict_prompt
ConfidenceDigits == 4

\* round(score, 1) in analyze_prompt
ScoreDigits == 1

\* 1.0; one decimal digit finer than the confidence the adapter rounds
Unit == 10 ^ (ConfidenceDigits + 1)

\* round(x, digits): the multiples of 10^-digits nearest to x.  A value halfway
\* between two multiples goes to either: which one the binary float nearest
\* to the decimal value decides (round(0.25, 1) is 0.2, round(0.05, 1) is 0.1)
Round(x, digits) ==
  LET g == Unit \div (10 ^ digits)
      r == x % g
      lo == x - r
  IN  IF r = 0 THEN {x}
      ELSE IF 2 * r < g THEN {lo}
      ELSE IF 2 * r > g THEN {lo + g}
      ELSE {lo, lo + g}

Float(x) == [type |-> "float", v |-> x]

\* a value that is not a number
NonNumeric == [type |-> "str", v |-> 0]

(* --------------------------- classifier adapter ------------------------ *)

_SAFE_DEFAULT == [ml_prediction |-> "SAFE", ml_confidence |-> Float(0)]

\* "SAFE" if pred == 0 else "MALICIOUS"
Label(pred) == IF pred = 0 THEN "SAFE" ELSE "MALICIOUS"

\* what predict_prompt returns when model.predict gives pred and
\* model.predict_proba gives proba for that class
PredictResults(pred, proba) ==
  {[ml_prediction |-> Label(pred), ml_confidence |-> Float(c)] : c \in Round(proba, ConfidenceDigits)}

\* the call predict_prompt(prompt) raised
Raised == [raised |-> TRUE]

\* results that do not have the shape {"ml_prediction", "ml_confidence": float}
MalformedResults ==
  { None,
    [ml_confidence |-> Float(9 * (Unit \div 10))],
    [ml_prediction |-> "MALICIOUS"],
    [ml_prediction |-> "MALICIOUS", ml_confidence |-> NonNumeric],
    [ml_prediction |-> "SAFE", ml_confidence |-> NonNumeric] }

(* ------------------------------ score fusion --------------------------- *)

\* the test of the label reduced to its truthiness
IsMaliciousTruthy(ml_prediction) == ml_prediction # ""

\* if ml_prediction == "MALICIOUS"
IsMalicious(ml_prediction) == ml_prediction = "MALICIOUS"

\* the override with a strict comparison
OverrideStrict(score, confidence) ==
  IF 2 * confidence > Unit THEN Max(score, 7 * Unit) ELSE score

\* if ml_confidence >= 0.5: score = max(score, 7)
Override(score, confidence) ==
  IF 2 * confidence >= Unit THEN Max(score, 7 * Unit) ELSE score

\* lines 148-172 of analyze_prompt: ml_prediction, ml_confidence and score
\* when the try statement is left, normally or through except.  A result that
\* is None or lacks a key raises at the subscript, a confidence that is not a
\* number raises at score += ml_boost; what was assigned before stays assigned
Fusion(keyword_score, r) ==
  LET score == keyword_score * Unit
      dflt == [ml_prediction |-> "SAFE", ml_confidence |-> Float(0), score |-> score]
  IN  IF r = Raised \/ r = None \/ "ml_prediction" \notin DOMAIN r
      THEN dflt
      ELSE IF "ml_confidence" \notin DOMAIN r
      THEN [dflt EXCEPT !.ml_prediction = r.ml_prediction]
      ELSE LET ml_prediction == r.ml_prediction
               ml_confidence == r.ml_confidence
               read == [ml_prediction |-> ml_prediction, ml_confidence |-> ml_confidence,
                        score |-> score]
           IN  IF ~IsMalicious(ml_prediction) THEN read
               ELSE IF ml_confidence.type # "float" THEN read
               ELSE LET ml_boost == ml_confidence.v * 5
                    IN  [read EXCEPT !.score = Override(score + ml_boost, ml_confidence.v)]

\* score = min(10, round(score, 1))
FinalScores(score) == {Min(10 * Unit, s) : s \in Round(score, ScoreDigits)}

\* the MEDIUM band without its upper boundary
ThreatLevelStrict(score) ==
  IF score <= 2 * Unit THEN "SAFE"
  ELSE IF score < 6 * Unit THEN "MEDIUM"
  ELSE "HIGH"

ThreatLevel(score) ==
  IF score <= 2 * Unit THEN "SAFE"
  ELSE IF score <= 6 * Unit THEN "MEDIUM"
  ELSE "HIGH"

ConfidenceLabel(score) ==
  IF score >= 8 * Unit THEN "high"
  ELSE IF score >= 4 * Unit THEN "medium"
  ELSE "low"

(* ------------------------------- inputs -------------------------------- *)

\* a prompt is None, or at most MaxPieces pieces of text joined by single spaces
MaxPieces == 3

Pieces ==
  { <<"h", "s", "c", "k">>,
    <<"r", "u", "g">>,
    <<"h", "o", "w", " ", "t", "o">>,
    <<"K", "i", "l", "l", ",", "u", "s", "e", "r">>,
    <<"h", "a", "c", "k", "_", "b", "o", "m", "b">>,
    <<"\t">> }

RECURSIVE Join(_)
Join(ps) ==
  IF ps = <<>> THEN <<>>
  ELSE IF Len(ps) = 1 THEN ps[1]
  ELSE ps[1] \o <<" ">> \o Join(Tail(ps))

PieceSeqs == UNION {[1..n -> Pieces] : n \in 0..MaxPieces}

NonePrompt == [none |-> TRUE, str |-> <<>>]

Prompts == {NonePrompt} \cup {[none |-> FALSE, str |-> Join(ps)] : ps \in PieceSeqs}

\* the class probabilities a loaded model may report, in units of 1/Unit;
\* predict_prompt passes the number on without checking its range
ProbaSamples == {-20000, 0, 3000, 20000, 49995, 50000, 100000, 170000}

(* ----------------------------- the program ----------------------------- *)

NoReport == [threatScore |-> 0, threatLevel |-> "", detectedActions |-> {},
             detectedTargets |-> {}, mlPrediction |-> "", mlConfidence |-> Float(0),
             confidence |-> "", scale |-> "", detectionMethod |-> ""]

NoScore == _keyword_score(<<>>)

\* import of ml_model: both artifacts load, or a missing file leaves None
Init ==
  /\ model \in {"loaded", "None"}
  /\ pc = "idle"
  /\ prompt = NonePrompt
  /\ kw = NoScore
  /\ ml_result = None
  /\ report = NoReport

\* (prompt or "").strip()
Stripped(p) == Strip(IF p.none THEN <<>> ELSE p.str)

\* analyze_prompt is called: lines 143-151
AnalyzeStart(p) ==
  /\ pc = "idle"
  /\ pc' = "scored"
  /\ prompt' = p
  /\ kw' = _keyword_score(Stripped(p))
  /\ UNCHANGED <<model, ml_result, report>>

\* predict_prompt: an artifact is missing
PredictUnavailable ==
  /\ pc = "scored"
  /\ model = "None"
  /\ ml_result' = _SAFE_DEFAULT
  /\ pc' = "predicted"
  /\ UNCHANGED <<model, prompt, kw, report>>

\* predict_prompt: the model predicts
PredictOk(pred, proba) ==
  /\ pc = "scored"
  /\ model = "loaded"
  /\ ml_result' \in PredictResults(pred, proba)
  /\ pc' = "predicted"
  /\ UNCHANGED <<model, prompt, kw, report>>

\* predict_prompt: transform or predict raises
PredictFailed ==
  /\ pc = "scored"
  /\ model = "loaded"
  /\ ml_result' = _SAFE_DEFAULT
  /\ pc' = "predicted"
  /\ UNCHANGED <<model, prompt, kw, report>>

\* the name predict_prompt is bound to an adapter that breaks the contract
\* (a stub, another build of ml_model): a result of another shape reaches
\* the try statement of analyze_prompt
AdapterMalformed(r) ==
  /\ pc = "scored"
  /\ ml_result' = r
  /\ pc' = "predicted"
  /\ UNCHANGED <<model, prompt, kw, report>>

\* as above: the call itself raises inside the try statement
AdapterRaises ==
  /\ pc = "scored"
  /\ ml_result' = Raised
  /\ pc' = "predicted"
  /\ UNCHANGED <<model, prompt, kw, report>>

\* lines 153-204: fusion, clamp, levels, the report
Fuse ==
  /\ pc = "predicted"
  /\ LET f == Fusion(kw.score, ml_result)
     IN  \E score \in FinalScores(f.score) :
           report' = [threatScore |-> score,
                      threatLevel |-> ThreatLevel(score),
                      detectedActions |-> kw.detected_actions,
                      detectedTargets |-> kw.detected_targets,
                      mlPrediction |-> f.ml_prediction,
                      mlConfidence |-> f.ml_confidence,
                      confidence |-> ConfidenceLabel(score),
                      scale |-> "0-10",
                      detectionMethod |-> "Keyword + Machine Learning"]
  /\ pc' = "done"
  /\ UNCHANGED <<model, prompt, kw, ml_result>>

\* the call has returned; nothing of it is kept
Return ==
  /\ pc = "done"
  /\ pc' = "idle"
  /\ prompt' = NonePrompt
  /\ kw' = NoScore
  /\ ml_result' = None
  /\ report' = NoReport
  /\ UNCHANGED model

Next ==
  \/ \E p \in Prompts : AnalyzeStart(p)
  \/ PredictUnavailable
  \/ \E pred \in {0, 1}, proba \in ProbaSamples : PredictOk(pred, proba)
  \/ PredictFailed
  \/ \E r \in MalformedResults : AdapterMalformed(r)
  \/ AdapterRaises
  \/ Fuse
  \/ Return

Spec == Init /\ [][Next]_vars

(* ------------------------------ properties ----------------------------- *)

\* a classifier result of the contract shape: both keys, a numeric confidence
WellFormed(r) ==
  /\ r # Raised
  /\ r # None
  /\ DOMAIN r = {"ml_prediction", "ml_confidence"}
  /\ r.ml_confidence.type = "float"

\* None, the empty string or whitespace only
IsBlank(p) == p.none \/ \A i \in DOMAIN p.str : IsSpace(p.str[i])

LexiconNames == {"action", "sensitive", "safe"}

LexiconOf(name) ==
  IF name = "action" THEN RISKY_ACTIONS
  ELSE IF name = "sensitive" THEN SENSITIVE_TARGETS
  ELSE SAFE_TARGETS

HitsOf(res, name) ==
  IF name = "action" THEN res.action_indices
  ELSE IF name = "sensitive" THEN res.sensitive_indices
  ELSE res.safe_indices

\* the keyword result of the token sequence with token i replaced by word
WithExactWord(tokens, i, word) == _keyword_score(Join([tokens EXCEPT ![i] = word]))

\* C1: every report has 0 <= threatScore <= 10, whatever the classifier result
ThreatScoreInRange ==
  pc = "done" => (0 <= report.threatScore /\ report.threatScore <= 10 * Unit)

\* C2: when the classifier call raises or its result is malformed, the report
\* carries the safe default ("SAFE", 0.0) and the keyword-only score
SafeDefaultOnClassifierError ==
  (pc = "done" /\ ~WellFormed(ml_result)) =>
    /\ report.mlPrediction = "SAFE"
    /\ report.mlConfidence = Float(0)
    /\ report.threatScore = kw.score * Unit

\* C3: a MALICIOUS label with confidence >= 0.5 gives a final threatScore >= 7
\* and the level HIGH, whatever the keyword score
OverrideRule ==
  (/\ pc = "done"
   /\ WellFormed(ml_result)
   /\ ml_result.ml_prediction = "MALICIOUS"
   /\ 2 * ml_result.ml_confidence.v >= Unit) =>
    /\ report.threatScore >= 7 * Unit
    /\ report.threatLevel = "HIGH"

\* keyword score 0, MALICIOUS at confidence exactly 0.5: the report says 7
OverrideRuleWitness ==
  /\ pc = "done"
  /\ kw.score = 0
  /\ ml_result = [ml_prediction |-> "MALICIOUS", ml_confidence |-> Float(Unit \div 2)]
  /\ report.threatScore = 7 * Unit
  /\ report.threatLevel = "HIGH"

\* C4: threatLevel and confidence are step functions of the final threatScore:
\* SAFE iff <= 2, MEDIUM iff in (2, 6], HIGH iff > 6; low iff < 4, medium iff
\* in [4, 8), high iff >= 8
LevelsAreStepFunctions ==
  pc = "done" =>
    LET s == report.threatScore
    IN  /\ report.threatLevel \in {"SAFE", "MEDIUM", "HIGH"}
        /\ report.threatLevel = "SAFE" <=> s <= 2 * Unit
        /\ report.threatLevel = "MEDIUM" <=> (2 * Unit < s /\ s <= 6 * Unit)
        /\ report.threatLevel = "HIGH" <=> s > 6 * Unit
        /\ report.confidence \in {"low", "medium", "high"}
        /\ report.confidence = "low" <=> s < 4 * Unit
        /\ report.confidence = "medium" <=> (4 * Unit <= s /\ s < 8 * Unit)
        /\ report.confidence = "high" <=> s >= 8 * Unit

\* a report at the boundary score 6.0: still MEDIUM, and "medium"
LevelsAreStepFunctionsWitness ==
  /\ pc = "done"
  /\ report.threatScore = 6 * Unit
  /\ report.threatLevel = "MEDIUM"
  /\ report.confidence = "medium"

\* C5: a None, empty or whitespace-only prompt gives threatScore 0 and empty
\* detectedActions and detectedTargets, and no lexicon lookup is made
BlankPromptScoresZero ==
  (pc = "done" /\ IsBlank(prompt)) =>
    /\ report.threatScore = 0
    /\ report.detectedActions = {}
    /\ report.detectedTargets = {}
    /\ kw.lookups = 0

\* C6 as stated: a token at edit distance exactly 1 from a lexicon word gives
\* the same keyword score and the same detectedActions and detectedTargets as
\* the exact word in its place; a token at distance 2 or more from every entry
\* of a lexicon gives no hit for that lexicon
FuzzyTypoSameScore ==
  pc = "scored" =>
    \A i \in DOMAIN kw.tokens : \A name \in LexiconNames :
      LET lexicon == LexiconOf(name)
          t == kw.tokens[i]
      IN  /\ \A k \in DOMAIN lexicon :
               _levenshtein(t, lexicon[k]) = 1 =>
                 LET exact == WithExactWord(kw.tokens, i, lexicon[k])
                 IN  /\ exact.score = kw.score
                     /\ exact.detected_actions = kw.detected_actions
                     /\ exact.detected_targets = kw.detected_targets
          /\ (\A k \in DOMAIN lexicon : _levenshtein(t, lexicon[k]) >= 2) =>
               \A h \in DOMAIN HitsOf(kw, name) : HitsOf(kw, name)[h].idx # i - 1

\* C6 as amended: a token at edit distance exactly 1 from a word of a lexicon
\* gives that lexicon the same hits as the exact word in its place, so the
\* score and the evidence are the same whenever the other two lexicons get
\* the same hits and the intent phrase is present in both or in neither; a
\* token at distance 2 or more from every entry of a lexicon gives no hit for
\* it; a hit is the first entry, in lexicon order, at the smallest distance
FuzzyTypoSameHit ==
  pc = "scored" =>
    \A i \in DOMAIN kw.tokens : \A name \in LexiconNames :
      LET lexicon == LexiconOf(name)
          t == kw.tokens[i]
          hits == HitsOf(kw, name)
      IN  /\ \A k \in DOMAIN lexicon :
               _levenshtein(t, lexicon[k]) = 1 =>
                 LET exact == WithExactWord(kw.tokens, i, lexicon[k])
                 IN  /\ HitsOf(exact, name) = hits
                     /\ \E h \in DOMAIN hits : hits[h] = [word |-> lexicon[k], idx |-> i - 1]
                     /\ (/\ \A other \in LexiconNames : HitsOf(exact, other) = HitsOf(kw, other)
                         /\ HasIntentPhrase(exact.normalized) = HasIntentPhrase(kw.normalized)) =>
                          /\ exact.score = kw.score
                          /\ exact.detected_actions = kw.detected_actions
                          /\ exact.detected_targets = kw.detected_targets
          /\ (\A k \in DOMAIN lexicon : _levenshtein(t, lexicon[k]) >= 2) =>
               \A h \in DOMAIN hits : hits[h].idx # i - 1
          /\ \A h \in DOMAIN hits :
               hits[h].idx = i - 1 =>
                 \E k \in DOMAIN lexicon :
                   /\ lexicon[k] = hits[h].word
                   /\ _levenshtein(t, lexicon[k]) <= 1
                   /\ \A j \in DOMAIN lexicon :
                        \/ _levenshtein(t, lexicon[j]) > _levenshtein(t, lexicon[k])
                        \/ (_levenshtein(t, lexicon[j]) = _levenshtein(t, lexicon[k]) /\ j >= k)

\* "hsck" next to "kill" and "user": the typo is recorded as the action hack,
\* and "kill", two edits from the safe target file, is no safe hit
FuzzyTypoSameHitWitness ==
  /\ pc = "scored"
  /\ \E i \in DOMAIN kw.tokens :
       /\ kw.tokens[i] = <<"h", "s", "c", "k">>
       /\ \E h \in DOMAIN kw.action_indices :
            kw.action_indices[h] = [word |-> <<"h", "a", "c", "k">>, idx |-> i - 1]
  /\ \E i \in DOMAIN kw.tokens :
       /\ kw.tokens[i] = <<"k", "i", "l", "l">>
       /\ _levenshtein(kw.tokens[i], <<"f", "i", "l", "e">>) = 2
  /\ kw.safe_indices = <<>>
  /\ kw.score >= 3

\* C7: with the classifier at the safe default the final threatScore is the
\* keyword score, an integer in [0, 5]
KeywordOnlyScore ==
  (pc = "done" /\ ml_result = _SAFE_DEFAULT) =>
    /\ kw.score \in 0..5
    /\ report.threatScore = kw.score * Unit

\* safe default, and a prompt whose pairs add up to more than 5: the report says 5
KeywordOnlyScoreWitness ==
  /\ pc = "done"
  /\ ml_result = _SAFE_DEFAULT
  /\ Len(kw.action_indices) * Len(kw.sensitive_indices) >= 2
  /\ kw.score = 5
  /\ report.threatScore = 5 * Unit

StrongPairs ==
  {<<a, t>> \in (DOMAIN kw.action_indices) \X (DOMAIN kw.sensitive_indices) :
     Abs(kw.action_indices[a].idx - kw.sensitive_indices[t].idx) <= 3}

WeakPairs ==
  {<<a, t>> \in (DOMAIN kw.action_indices) \X (DOMAIN kw.safe_indices) :
     Abs(kw.action_indices[a].idx - kw.safe_indices[t].idx) <= 3}

IntentPresent ==
  \/ Contains(kw.normalized, <<"h", "o", "w", " ", "t", "o">>)
  \/ Contains(kw.normalized, <<"w", "a", "y", "s", " ", "t", "o">>)
  \/ Contains(kw.normalized, <<"m", "e", "t", "h", "o", "d", " ", "t", "o">>)

\* C8: the keyword score is min(5, 3*S + W + I): S and W count the pairs of an
\* action hit with a sensitive hit, resp. a safe hit, at most 3 tokens apart,
\* and I is 1 when an intent phrase is present
KeywordScoreFormula ==
  kw.score = Min(5, 3 * Cardinality(StrongPairs) + Cardinality(WeakPairs)
                    + (IF IntentPresent THEN 1 ELSE 0))

\* an action and a sensitive target 4 tokens apart add nothing: "hsck how to
\* kill user" scores 3 for (kill, user) and 1 for the intent phrase
KeywordScoreFormulaWitness ==
  /\ pc = "scored"
  /\ \E a \in DOMAIN kw.action_indices : \E t \in DOMAIN kw.sensitive_indices :
       Abs(kw.action_indices[a].idx - kw.sensitive_indices[t].idx) = 4
  /\ Cardinality(StrongPairs) = 1
  /\ IntentPresent
  /\ kw.score = 4

\* C9: every token is non-empty and made of lowercase letters and digits only
TokensAreAlphanumeric ==
  \A i \in DOMAIN kw.tokens :
    /\ kw.tokens[i] # <<>>
    /\ \A j \in DOMAIN kw.tokens[i] : kw.tokens[i][j] \in Range(LowerLetters) \cup Digits

\* C10: a report with mlPrediction SAFE has threatScore <= 5, is never HIGH
\* and never "high"; HIGH needs mlPrediction MALICIOUS; "high" implies HIGH
\* and SAFE implies "low"
SafeLabelNeverHigh ==
  pc = "done" =>
    /\ report.mlPrediction = "SAFE" =>
         /\ report.threatScore <= 5 * Unit
         /\ report.threatLevel # "HIGH"
         /\ report.confidence # "high"
    /\ report.threatLevel = "HIGH" => report.mlPrediction = "MALICIOUS"
    /\ report.confidence = "high" => report.threatLevel = "HIGH"
    /\ report.threatLevel = "SAFE" => report.confidence = "low"

\* the label SAFE at confidence 1.0 on a prompt of keyword score 5: 5.0, MEDIUM
SafeLabelNeverHighWitness ==
  /\ pc = "done"
  /\ ml_result = [ml_prediction |-> "SAFE", ml_confidence |-> Float(Unit)]
  /\ kw.score = 5
  /\ report.threatScore = 5 * Unit
  /\ report.threatLevel = "MEDIUM"
  /\ report.confidence = "medium"

====
